---- MODULE Spec2Model ----
(***************************************************************************)
(* A model of patch-crates (src/src/main.rs): the manifest editor          *)
(* ensure_patches_in_cargo_toml, the policy-file updater update_deny_toml, *)
(* the per-repository orchestrator patch_crate, the batch runner           *)
(* patch_crates, the companion loops cleanup_branches, update_and_check    *)
(* and reset, and main with load_config.                                   *)
(*                                                                         *)
(* Specifications: SpecEditor (the editor called repeatedly on one file),  *)
(* SpecDeny (the policy updater), Spec (the patch subcommand), SpecRerun   *)
(* (patch started again on one repository), SpecCleanup, SpecUpdate, and   *)
(* SpecMain (load_config followed by any of the four subcommands).         *)
(*                                                                         *)
(* File contents are sequences of tokens.  A token is a newline, a table   *)
(* header, or a `key = value` entry; a line is the run of tokens between   *)
(* two newlines.  The TOML fragment covered is: table headers              *)
(* [dependencies], [dev-dependencies], [patch.crates-io]; key/value lines; *)
(* blank lines.  Duplicate keys in a table, a table defined twice and two  *)
(* items on one line are parse errors, as in the toml crate.               *)
(***************************************************************************)
EXTENDS Integers, Sequences, FiniteSets, TLC

\* ------------------------------------------------------------------ bounds
MaxLines == 4
MaxCrates == 2
MaxRuns == 2
MaxAllow == 2
MaxDirs == 2

\* ------------------------------------------------------------- vocabulary
Names == {"foo", "bar"}
Urls == {"u1", "u2"}

\* struct Crate { name, repo_url }
Cr(n, u) == [name |-> n, repo_url |-> u]

\* the crates a configuration may list: foo and bar from the same repository,
\* and bar from a second one
Crate == {Cr("foo", "u1"), Cr("bar", "u1"), Cr("bar", "u2")}

\* Vec<Crate> of the configuration, up to MaxCrates entries
CrateLists == UNION {[1..n -> Crate] : n \in 0..MaxCrates}

\* ------------------------------------------------------------ file tokens
NL == [k |-> "nl", a |-> "", b |-> ""]
Hdr(t) == [k |-> "hdr", a |-> t, b |-> ""]
KV(n, v) == [k |-> "kv", a |-> n, b |-> v]

Tables == {"dependencies", "dev-dependencies", "patch.crates-io"}

\* the text "[patch.crates-io]"
PatchHeader == Hdr("patch.crates-io")

\* the items a line of an input manifest may hold
LineItems == {Hdr(t) : t \in Tables} \cup {KV(n, "ver") : n \in Names}

\* the text of the given lines, each ended by a newline
Render(ls) == [j \in 1..(2 * Len(ls)) |-> IF j % 2 = 1 THEN ls[(j + 1) \div 2] ELSE NL]

\* every manifest text of up to MaxLines lines
Manifests == {Render(ls) : ls \in UNION {[1..n -> LineItems] : n \in 0..MaxLines}}

\* str::contains for a one-token needle
Contains(text, tok) == \E i \in 1..Len(text) : text[i] = tok

\* --------------------------------------------------------------- toml parse
\* parser state: ok, the current table, the tables defined, the keys seen as
\* <<table, key>>, and whether the current line already holds an item
ParseInit ==
    [ok |-> TRUE, cur |-> "", defined |-> {}, keys |-> {}, busy |-> FALSE]

ParseStep(st, tok) ==
    IF ~st.ok THEN st
    ELSE IF tok.k = "nl" THEN [st EXCEPT !.busy = FALSE]
    ELSE IF st.busy THEN [st EXCEPT !.ok = FALSE]
    ELSE IF tok.k = "hdr" THEN
        IF tok.a \in st.defined THEN [st EXCEPT !.ok = FALSE]
        ELSE [st EXCEPT !.cur = tok.a, !.defined = @ \cup {tok.a}, !.busy = TRUE]
    ELSE
        IF <<st.cur, tok.a>> \in st.keys THEN [st EXCEPT !.ok = FALSE]
        ELSE [st EXCEPT !.keys = @ \cup {<<st.cur, tok.a>>}, !.busy = TRUE]

RECURSIVE ParseFrom(_, _, _)
ParseFrom(text, i, st) ==
    IF i > Len(text) THEN st ELSE ParseFrom(text, i + 1, ParseStep(st, text[i]))

\* toml::from_str::<toml::Value>
TomlParse(text) == ParseFrom(text, 1, ParseInit)

\* toml.get(table).as_table().keys(), empty when the table is missing
TableKeys(doc, table) == {n \in Names : <<table, n>> \in doc.keys}

parse_referenced_crates(content) ==
    LET toml == TomlParse(content) IN
    IF ~toml.ok THEN [ok |-> FALSE, val |-> {}]
    ELSE [ok |-> TRUE,
          val |-> TableKeys(toml, "dependencies")
                    \cup TableKeys(toml, "dev-dependencies")]

parse_existing_patches(content) ==
    LET toml == TomlParse(content) IN
    IF ~toml.ok THEN [ok |-> FALSE, val |-> {}]
    ELSE [ok |-> TRUE, val |-> TableKeys(toml, "patch.crates-io")]

\* ----------------------------------------------------------- manifest editor
\* outcomes of the file system calls of one ensure_patches_in_cargo_toml call:
\* the read fails, the open fails, or the writeln after `after` successful
\* ones fails
IoOutcomes ==
    {[fail |-> f, after |-> 0] : f \in {"none", "read", "open"}}
        \cup {[fail |-> "write", after |-> n] : n \in 0..MaxCrates}

IoOk == [fail |-> "none", after |-> 0]

\* the `name = { git = "<url>", branch = "main" }` line
PatchLine(c) == KV(c.name, c.repo_url)

\* the condition of the loop body
ShouldPatchNoExistingCheck(c, referenced, existing) == c.name \in referenced
ShouldPatch(c, referenced, existing) ==
    c.name \in referenced /\ c.name \notin existing

\* the for loop over the candidates: the crates pushed to updated_crates
RECURSIVE PatchLoop(_, _, _, _)
PatchLoop(cs, i, referenced, existing) ==
    IF i > Len(cs) THEN <<>>
    ELSE (IF ShouldPatch(cs[i], referenced, existing) THEN <<cs[i]>> ELSE <<>>)
            \o PatchLoop(cs, i + 1, referenced, existing)

RECURSIVE Flatten(_)
Flatten(chunks) ==
    IF chunks = <<>> THEN <<>> ELSE Head(chunks) \o Flatten(Tail(chunks))

\* the writeln! calls of one run, in order
HeaderWriteAlways(content) == << <<NL, PatchHeader, NL>> >>
HeaderWrite(content) ==
    IF ~Contains(content, PatchHeader) THEN << <<NL, PatchHeader, NL>> >>
    ELSE <<>>

EditorWrites(content, applied) ==
    HeaderWrite(content) \o [i \in 1..Len(applied) |-> <<PatchLine(applied[i]), NL>>]

\* an early return by `?`: nothing has been written yet
ErrAfterHeaderWritten(why, content) ==
    [ok |-> FALSE, why |-> why, content |-> content \o <<NL, PatchHeader, NL>>,
     updated |-> <<>>]
ErrResult(why, content) ==
    [ok |-> FALSE, why |-> why, content |-> content, updated |-> <<>>]

\* the result: Ok(updated_crates) or Err (with the step that failed), and the
\* file as the call leaves it
ensure_patches_in_cargo_toml(content, cs, io) ==
    LET err(why) == ErrResult(why, content)
        referenced == parse_referenced_crates(content)
        existing == parse_existing_patches(content)
    IN  IF io.fail = "read" THEN err("read")
        ELSE IF ~referenced.ok THEN err("parse")
        ELSE IF ~existing.ok THEN err("parse")
        ELSE IF io.fail = "open" THEN err("open")
        ELSE
            LET applied == PatchLoop(cs, 1, referenced.val, existing.val)
                writes == EditorWrites(content, applied)
                failed == io.fail = "write" /\ io.after < Len(writes)
                done == IF failed THEN io.after ELSE Len(writes)
            IN  [ok |-> ~failed,
                 why |-> IF failed THEN "write" ELSE "none",
                 content |-> content \o Flatten(SubSeq(writes, 1, done)),
                 updated |-> IF failed THEN <<>> ELSE applied]

\* ------------------------------------------------------------ policy file
\* deny.toml: whether it exists, whether it parses, what `sources` is
\* ("missing", "nontable", "table"), what `sources.allow-git` is ("missing",
\* "nonarray", "array") and the array's elements
DenyFile(e, p, s, a, rs) ==
    [exists |-> e, parses |-> p, sources |-> s, allow |-> a, repos |-> rs]

DAbsent == DenyFile(FALSE, FALSE, "missing", "missing", <<>>)
DGarbage == DenyFile(TRUE, FALSE, "missing", "missing", <<>>)
Doc(s, a, rs) == DenyFile(TRUE, TRUE, s, a, rs)

\* an array element that is not a string
NonString == "42"
AllowItems == Urls \cup {NonString}

DenyFiles ==
    {DAbsent, DGarbage, Doc("missing", "missing", <<>>), Doc("nontable", "missing", <<>>),
     Doc("table", "missing", <<>>), Doc("table", "nonarray", <<>>)}
        \cup {Doc("table", "array", rs) :
                rs \in UNION {[1..n -> AllowItems] : n \in 0..MaxAllow}}

\* results of fs::read_to_string and fs::write; fs::write creates the file
\* anew and then writes: "open" fails before the file is touched, "write"
\* after it has been truncated
DenyIo == {"none", "read", "open", "write"}

Range(f) == {f[i] : i \in DOMAIN f}

\* the HashSet git_repos: the URLs of the updated crates and the strings of the
\* existing allow-git array
GitReposNewOnly(d, cs) == {cs[i].repo_url : i \in DOMAIN cs}
GitRepos(d, cs) ==
    {cs[i].repo_url : i \in DOMAIN cs}
        \cup (IF d.sources = "table" /\ d.allow = "array"
              THEN {r \in Range(d.repos) : r # NonString}
              ELSE {})

\* the orders in which a HashSet may be iterated
Orders(S) == {o \in [1..Cardinality(S) -> S] : Range(o) = S}

\* an updater without the exists() check, writing the list to a new file
UpdateDenyCreatesFile(d, cs, io, order) ==
    [res |-> "ok", file |-> [exists |-> TRUE, parses |-> TRUE, sources |-> "table",
                             allow |-> "array", repos |-> order]]

\* the result ("ok", "err_read", "err_parse", "err_write", "panic") and the file
\* as the call leaves it; `order` is the iteration order of git_repos
update_deny_toml(d, cs, io, order) ==
    IF ~d.exists THEN [res |-> "ok", file |-> d]
    ELSE IF io = "read" THEN [res |-> "err_read", file |-> d]
    ELSE IF ~d.parses THEN [res |-> "err_parse", file |-> d]
    ELSE IF d.sources = "nontable" THEN [res |-> "panic", file |-> d]
    ELSE IF io = "open" THEN [res |-> "err_write", file |-> d]
    ELSE IF io = "write"
         THEN [res |-> "err_write", file |-> Doc("missing", "missing", <<>>)]
    ELSE [res |-> "ok", file |-> Doc("table", "array", order)]

\* ------------------------------------------------------------------- state
VARIABLES
    cfgFile,       \* the file at --config: "ok", "unreadable", "unparseable"
    directories,   \* config.directories
    branch_name,   \* config.branch_name
    crates,        \* config.crates
    execute,       \* the --execute flag of `patch`
    pc,            \* where patch_crates / patch_crate stands
    idx,           \* the directory of the for loop (0 before the first)
    successful,    \* patch_crates' successful bucket
    unsuccessful,  \* patch_crates' unsuccessful bucket
    main_failures,   \* update_and_check's buckets; its successes are kept in
    update_failures, \* `successful`, as are reset's, and reset's failures in
    check_failures,  \* `unsuccessful`
    cwd,           \* the process's current directory (0: the one it started in)
    result,        \* what patch_crate returns for the current directory
    log,           \* the stages run for the current directory, in order
    nz,            \* "no": no command of this directory exited non-zero; "last":
                   \* the last one did; "ran_on": a command ran after one that did
    gitHead,       \* the branch checked out in the current directory
    gitBranches,   \* its local branches
    manifest,      \* the text of Cargo.toml in the current directory
    prevManifest,  \* Cargo.toml as it was when the last editor call started
    edRes,         \* the last editor call: "none", "ok", "err"
    edWhy,         \* why the last editor call failed: none, read, parse, open, write
    updated,       \* updated_crates returned by the last editor call
    runs,          \* editor / updater calls made so far; in SpecRerun, the patch
                   \* runs completed
    deny,          \* deny.toml in the current directory
    prevDeny,      \* deny.toml as it was when update_deny_toml started
    denyRes,       \* the last update_deny_toml call: "none", "ok", "err_*", "panic"
    prList         \* all_relevant_crates handed to create_pull_request

cfgVars == <<cfgFile, directories, branch_name, crates, execute>>
updVars == <<main_failures, update_failures, check_failures>>
batchVars == <<idx, successful, unsuccessful, updVars>>
gitVars == <<gitHead, gitBranches>>
edVars == <<manifest, prevManifest, edRes, edWhy, updated>>
denyVars == <<deny, prevDeny, denyRes>>

vars == <<cfgFile, directories, branch_name, crates, execute, pc, idx, successful,
          unsuccessful, main_failures, update_failures, check_failures, cwd,
          result, log, nz, gitHead, gitBranches, manifest, prevManifest, edRes,
          edWhy, updated, runs, deny, prevDeny, denyRes, prList>>

\* the values of the variables a specification does not use
NoUpdateBuckets ==
    /\ main_failures = <<>>
    /\ update_failures = <<>>
    /\ check_failures = <<>>

IdleBatch ==
    /\ cfgFile = "ok"
    /\ NoUpdateBuckets
    /\ directories = <<>>
    /\ branch_name = "patch-iroh-main"
    /\ execute = FALSE
    /\ pc = "idle"
    /\ idx = 0
    /\ successful = <<>>
    /\ unsuccessful = <<>>
    /\ cwd = 0
    /\ result = "none"
    /\ log = <<>>
    /\ nz = "no"
    /\ gitHead = "main"
    /\ gitBranches = {"main"}
    /\ prList = <<>>

IdleEditor ==
    /\ manifest = <<>>
    /\ prevManifest = <<>>
    /\ edRes = "none"
    /\ edWhy = "none"

IdleDeny ==
    /\ deny = DAbsent
    /\ prevDeny = DAbsent
    /\ denyRes = "none"

\* ------------------------------------------- the editor, called repeatedly
InitEditor ==
    /\ crates \in CrateLists
    /\ manifest \in Manifests
    /\ prevManifest = manifest
    /\ edRes = "none"
    /\ edWhy = "none"
    /\ updated = <<>>
    /\ runs = 0
    /\ IdleBatch
    /\ IdleDeny

\* one more run of the manifest-patch step on the file the last run left; a
\* run that returned Err ends the sequence
EditorCall ==
    /\ runs < MaxRuns
    /\ edRes # "err"
    /\ \E io \in IoOutcomes :
        \E r \in {ensure_patches_in_cargo_toml(manifest, crates, io)} :
            /\ prevManifest' = manifest
            /\ manifest' = r.content
            /\ edRes' = IF r.ok THEN "ok" ELSE "err"
            /\ edWhy' = r.why
            /\ updated' = r.updated
    /\ runs' = runs + 1
    /\ UNCHANGED <<cfgVars, pc, batchVars, cwd, result, log, nz, gitVars, denyVars, prList>>

NextEditor == EditorCall

SpecEditor == InitEditor /\ [][NextEditor]_vars

\* ----------------------------------- the policy updater, called repeatedly
InitDeny ==
    /\ crates = <<>>
    /\ updated \in CrateLists
    /\ deny \in DenyFiles
    /\ prevDeny = deny
    /\ denyRes = "none"
    /\ runs = 0
    /\ IdleBatch
    /\ IdleEditor

DenyCall ==
    /\ runs < MaxRuns
    /\ denyRes \in {"none", "ok"}
    /\ \E io \in DenyIo, order \in Orders(GitRepos(deny, updated)) :
        \E r \in {update_deny_toml(deny, updated, io, order)} :
            /\ prevDeny' = deny
            /\ deny' = r.file
            /\ denyRes' = r.res
    /\ runs' = runs + 1
    /\ UNCHANGED <<cfgVars, pc, batchVars, cwd, result, log, nz, gitVars, edVars, prList>>

NextDeny == DenyCall

SpecDeny == InitDeny /\ [][NextDeny]_vars

\* ------------------------------------------------- patch: the batch runner
\* the configured directories: absolute paths, one with a final component and
\* one without (Path::file_name is None for "/" and for paths ending in "..")
DirPaths == {"/work/repo", "/"}
HasFileName(d) == d # "/"

BranchNames == {"patch-iroh-main", "patch-next"}

\* how a spawned command ends: exit status 0, another exit status, or an
\* io::Error from Command::status (the program could not be started)
CmdOutcomes == {"zero", "nonzero", "spawn_err"}

\* the repository found in a directory: the branch checked out and the local
\* branches
RepoGits(b) ==
    {[head |-> "main", branches |-> {"main"}],
     [head |-> "wip", branches |-> {"main", "wip"}],
     [head |-> "wip", branches |-> {"main", "wip", b}],
     [head |-> b, branches |-> {"main", b}]}

\* the Cargo.toml found in a directory: foo declared and nothing overridden;
\* foo and bar declared and bar overridden; foo declared and overridden; foo
\* declared twice (no valid TOML); the override table present, no newline at
\* the end of the file
RepoManifests ==
    {Render(<<Hdr("dependencies"), KV("foo", "ver")>>),
     Render(<<Hdr("dependencies"), KV("foo", "ver"), KV("bar", "ver"),
              Hdr("patch.crates-io"), KV("bar", "ver")>>),
     Render(<<Hdr("dependencies"), KV("foo", "ver"),
              Hdr("patch.crates-io"), KV("foo", "ver")>>),
     Render(<<Hdr("dependencies"), KV("foo", "ver"), KV("foo", "ver")>>),
     <<Hdr("dependencies"), NL, KV("foo", "ver"), NL, Hdr("patch.crates-io")>>}

\* the deny.toml found in a directory
RepoDenys ==
    {DAbsent, DGarbage, Doc("nontable", "missing", <<>>), Doc("table", "array", <<"u1">>)}

\* the candidate lists that name no crate twice
DistinctNames(cs) == \A i, j \in DOMAIN cs : cs[i].name = cs[j].name => i = j

InitPatch ==
    /\ cfgFile = "ok"
    /\ NoUpdateBuckets
    /\ directories \in UNION {[1..n -> DirPaths] : n \in 0..MaxDirs}
    /\ branch_name \in BranchNames
    /\ crates \in {cs \in CrateLists : DistinctNames(cs)}
    /\ execute \in BOOLEAN
    /\ pc = "loop"
    /\ idx = 0
    /\ successful = <<>>
    /\ unsuccessful = <<>>
    /\ cwd = 0
    /\ result = "none"
    /\ log = <<>>
    /\ nz = "no"
    /\ gitHead = "main"
    /\ gitBranches = {"main"}
    /\ prList = <<>>
    /\ updated = <<>>
    /\ runs = 0
    /\ IdleEditor
    /\ IdleDeny

\* a stage is entered: it is appended to the log of the current directory
Ran(stage) == log' = Append(log, stage)

\* the exit status of a command whose status the code does not inspect
NzAfter(o) ==
    nz' = IF nz # "no" THEN "ran_on" ELSE IF o = "nonzero" THEN "last" ELSE "no"

\* patch_crate returns
Return(res) == pc' = "ret" /\ result' = res

Goto(stage) == pc' = stage /\ UNCHANGED result

\* `.status().with_context(..)?`: only an io::Error returns early
AfterStatus(o, next) == IF o = "spawn_err" THEN Return("err") ELSE Goto(next)

\* what patch_crate holds of the directory it works on, before it has looked
\* at anything
FreshCall ==
    /\ log' = <<>>
    /\ nz' = "no"
    /\ updated' = <<>>
    /\ prList' = <<>>
    /\ manifest' = <<>> /\ prevManifest' = <<>> /\ edRes' = "none" /\ edWhy' = "none"
    /\ deny' = DAbsent /\ prevDeny' = DAbsent /\ denyRes' = "none"
    /\ gitHead' = "main" /\ gitBranches' = {"main"}

\* the for loop calls patch_crate: set_current_dir, then file_name().expect
PatchCrateEnter ==
    /\ pc = "loop"
    /\ idx < Len(directories)
    /\ idx' = idx + 1
    /\ \/ /\ cwd' = cwd
          /\ Return("err")
          /\ UNCHANGED gitVars
       \/ /\ cwd' = idx + 1
          /\ \E g \in RepoGits(branch_name) :
                /\ gitHead' = g.head
                /\ gitBranches' = g.branches
          /\ result' = "none"
          /\ pc' = IF HasFileName(directories[idx + 1]) THEN "rev_parse" ELSE "panic"
    /\ UNCHANGED <<cfgVars, successful, unsuccessful, updVars, log, nz, edVars, runs, denyVars,
                   prList>>

\* git rev-parse --verify branch_name; status.success(), false on an io::Error
RevParse ==
    /\ pc = "rev_parse"
    /\ Ran("rev-parse")
    /\ \E o \in {"spawn_err", IF branch_name \in gitBranches THEN "zero" ELSE "nonzero"} :
        Goto(IF o = "zero" THEN "ensure" ELSE "co_main")
    /\ UNCHANGED <<cfgVars, batchVars, cwd, nz, gitVars, edVars, runs, denyVars, prList>>

\* create_and_checkout_branch: git checkout main
GitCheckoutMain ==
    /\ pc = "co_main"
    /\ Ran("git checkout main")
    /\ \E o \in CmdOutcomes :
        /\ NzAfter(o)
        /\ AfterStatus(o, "pull")
        /\ gitHead' = IF o = "zero" THEN "main" ELSE gitHead
    /\ UNCHANGED <<cfgVars, batchVars, cwd, gitBranches, edVars, runs, denyVars, prList>>

\* create_and_checkout_branch: git pull origin main
GitPull ==
    /\ pc = "pull"
    /\ Ran("git pull")
    /\ \E o \in CmdOutcomes :
        /\ NzAfter(o)
        /\ AfterStatus(o, "co_new")
    /\ UNCHANGED <<cfgVars, batchVars, cwd, gitVars, edVars, runs, denyVars, prList>>

\* create_and_checkout_branch: git checkout -b branch_name (it exits non-zero
\* when the branch exists)
GitCheckoutNew ==
    /\ pc = "co_new"
    /\ Ran("git checkout -b")
    /\ \E o \in CmdOutcomes :
        /\ o = "zero" => branch_name \notin gitBranches
        /\ NzAfter(o)
        /\ AfterStatus(o, "ensure")
        /\ gitHead' = IF o = "zero" THEN branch_name ELSE gitHead
        /\ gitBranches' = IF o = "zero" THEN gitBranches \cup {branch_name} ELSE gitBranches
    /\ UNCHANGED <<cfgVars, batchVars, cwd, edVars, runs, denyVars, prList>>

\* where patch_crate goes after the `if !updated_crates.is_empty()` block
AfterCommit == IF execute THEN Goto("push") ELSE Return("ok")

\* `if !updated_crates.is_empty()`
SkipsCommitBlockNever(upd) == FALSE
SkipsCommitBlock(upd) == upd = <<>>

\* ensure_patches_in_cargo_toml(crates)? on the Cargo.toml of the directory,
\* which is one of ms
EnsurePatchesOn(ms) ==
    /\ pc = "ensure"
    /\ Ran("ensure patches")
    /\ \E m \in ms, io \in IoOutcomes :
        \E r \in {ensure_patches_in_cargo_toml(m, crates, io)} :
            /\ prevManifest' = m
            /\ manifest' = r.content
            /\ edRes' = IF r.ok THEN "ok" ELSE "err"
            /\ edWhy' = r.why
            /\ updated' = r.updated
            /\ IF ~r.ok THEN Return("err")
               ELSE IF SkipsCommitBlock(r.updated) THEN AfterCommit
               ELSE Goto("cargo_update")
    /\ UNCHANGED <<cfgVars, batchVars, cwd, nz, gitVars, runs, denyVars, prList>>

EnsurePatches == EnsurePatchesOn(RepoManifests)

\* cargo_update(&updated_crates)?
CargoUpdate ==
    /\ pc = "cargo_update"
    /\ Ran("cargo update")
    /\ \E o \in CmdOutcomes :
        /\ NzAfter(o)
        /\ AfterStatus(o, "deny")
    /\ UNCHANGED <<cfgVars, batchVars, cwd, gitVars, edVars, runs, denyVars, prList>>

\* `update_deny_toml(..)?`: Ok goes on to commit_changes, Err returns, a panic
\* unwinds
AfterDenyAlwaysCommits(res) == Goto("add")
AfterDeny(res) ==
    IF res = "ok" THEN Goto("add")
    ELSE IF res = "panic" THEN pc' = "panic" /\ UNCHANGED result
    ELSE Return("err")

\* update_deny_toml(&updated_crates)? on the deny.toml of the directory, which
\* is one of ds
UpdateDenyOn(ds) ==
    /\ pc = "deny"
    /\ Ran("update deny.toml")
    /\ \E d \in ds, io \in DenyIo :
        \E order \in Orders(GitRepos(d, updated)) :
            \E r \in {update_deny_toml(d, updated, io, order)} :
                /\ prevDeny' = d
                /\ deny' = r.file
                /\ denyRes' = r.res
                /\ AfterDeny(r.res)
    /\ UNCHANGED <<cfgVars, batchVars, cwd, nz, gitVars, edVars, runs, prList>>

UpdateDeny == UpdateDenyOn(RepoDenys)

\* commit_changes: git add Cargo.toml Cargo.lock
GitAdd ==
    /\ pc = "add"
    /\ Ran("git add")
    /\ \E o \in CmdOutcomes :
        /\ NzAfter(o)
        /\ AfterStatus(o, "commit")
    /\ UNCHANGED <<cfgVars, batchVars, cwd, gitVars, edVars, runs, denyVars, prList>>

\* commit_changes: git commit -m ..
GitCommit ==
    /\ pc = "commit"
    /\ Ran("git commit")
    /\ \E o \in CmdOutcomes :
        /\ NzAfter(o)
        /\ IF o = "spawn_err" THEN Return("err") ELSE AfterCommit
    /\ UNCHANGED <<cfgVars, batchVars, cwd, gitVars, edVars, runs, denyVars, prList>>

\* push_branch(branch_name)?
GitPush ==
    /\ pc = "push"
    /\ Ran("git push")
    /\ \E o \in CmdOutcomes :
        /\ NzAfter(o)
        /\ AfterStatus(o, "reread")
    /\ UNCHANGED <<cfgVars, batchVars, cwd, gitVars, edVars, runs, denyVars, prList>>

\* the crates of the configuration whose name is in the re-read override table
RelevantCratesUpdatedOnly(cs, existing) == updated
RelevantCrates(cs, existing) == SelectSeq(cs, LAMBDA c : c.name \in existing)

\* Cargo.toml is read again and all_relevant_crates computed
RereadManifest ==
    /\ pc = "reread"
    /\ Ran("reread Cargo.toml")
    /\ \E readOk \in BOOLEAN :
        \E existing \in {parse_existing_patches(manifest)} :
            IF readOk /\ existing.ok
            THEN prList' = RelevantCrates(crates, existing.val) /\ Goto("pr")
            ELSE prList' = prList /\ Return("err")
    /\ UNCHANGED <<cfgVars, batchVars, cwd, nz, gitVars, edVars, runs, denyVars>>

\* create_pull_request(branch_name, &all_relevant_crates)?: gh pr create
GhPrCreate ==
    /\ pc = "pr"
    /\ Ran("gh pr create")
    /\ \E o \in CmdOutcomes :
        /\ NzAfter(o)
        /\ IF o = "spawn_err" THEN Return("err") ELSE Return("ok")
    /\ UNCHANGED <<cfgVars, batchVars, cwd, gitVars, edVars, runs, denyVars, prList>>

\* the match on patch_crate's result: the directory goes to one bucket, and
\* the loop moves on
PatchCratesCollect ==
    /\ pc = "ret"
    /\ IF result = "ok"
       THEN successful' = Append(successful, idx) /\ UNCHANGED unsuccessful
       ELSE unsuccessful' = Append(unsuccessful, idx) /\ UNCHANGED successful
    /\ pc' = "loop"
    /\ FreshCall
    /\ UNCHANGED <<cfgVars, idx, updVars, cwd, result, runs>>

\* after the loop: the two lists are reported, each entry by
\* file_name().unwrap(); then Ok(())
PatchCratesReport ==
    /\ pc = "loop"
    /\ idx = Len(directories)
    /\ pc' = IF \A i \in Range(successful) \cup Range(unsuccessful) :
                    HasFileName(directories[i])
             THEN "done" ELSE "panic"
    /\ UNCHANGED <<cfgVars, batchVars, cwd, result, log, nz, gitVars, edVars, runs,
                   denyVars, prList>>

Next ==
    \/ PatchCrateEnter
    \/ RevParse
    \/ GitCheckoutMain
    \/ GitPull
    \/ GitCheckoutNew
    \/ EnsurePatches
    \/ CargoUpdate
    \/ UpdateDeny
    \/ GitAdd
    \/ GitCommit
    \/ GitPush
    \/ RereadManifest
    \/ GhPrCreate
    \/ PatchCratesCollect
    \/ PatchCratesReport

Spec == InitPatch /\ [][Next]_vars

\* ---------------------- patch run again and again on one repository (dry run)
\* the repository as an earlier branch setup left it: branch_name exists and is
\* checked out; Cargo.toml and deny.toml are kept from one run to the next, and
\* so is the log, which lists the stages of all runs
\* the Cargo.toml files of RepoManifests, and one whose override table is
\* followed by another table
RerunManifests ==
    RepoManifests
        \cup {Render(<<Hdr("dependencies"), KV("foo", "ver"),
                       Hdr("patch.crates-io"), Hdr("dev-dependencies")>>)}

InitRerun ==
    /\ cfgFile = "ok"
    /\ NoUpdateBuckets
    /\ directories = <<"/work/repo">>
    /\ branch_name = "patch-iroh-main"
    /\ crates \in {cs \in CrateLists : DistinctNames(cs)}
    /\ execute = FALSE
    /\ pc = "ensure"
    /\ idx = 1
    /\ successful = <<>>
    /\ unsuccessful = <<>>
    /\ cwd = 1
    /\ result = "none"
    /\ log = <<>>
    /\ nz = "no"
    /\ gitHead = branch_name
    /\ gitBranches = {"main", branch_name}
    /\ prList = <<>>
    /\ manifest \in RerunManifests
    /\ prevManifest = manifest
    /\ edRes = "none"
    /\ edWhy = "none"
    /\ updated = <<>>
    /\ runs = 0
    /\ deny \in RepoDenys
    /\ prevDeny = deny
    /\ denyRes = "none"

\* patch_crate has returned; the program is started again with the same
\* configuration: rev-parse finds the branch, and the editor is next
RunAgain ==
    /\ pc = "ret"
    /\ runs + 1 < MaxRuns
    /\ runs' = runs + 1
    /\ pc' = "ensure"
    /\ nz' = "no"
    /\ UNCHANGED <<cfgVars, batchVars, cwd, result, log, gitVars, edVars, denyVars, prList>>

NextRerun ==
    \/ EnsurePatchesOn({manifest})
    \/ CargoUpdate
    \/ UpdateDenyOn({deny})
    \/ GitAdd
    \/ GitCommit
    \/ RunAgain

SpecRerun == InitRerun /\ [][NextRerun]_vars

\* ------------------------------------------ cleanup, update, reset and main
\* the per-directory state as a loop iteration finds it before it has run a
\* command
FreshIteration ==
    /\ log' = <<>>
    /\ nz' = "no"

\* `if std::env::set_current_dir(dir).is_ok()`
ProceedsAlways(chdirOk) == TRUE
Proceeds(chdirOk) == chdirOk

\* the three companion loops change into the next directory; when that fails
\* the directory is skipped
EnterDir(here, first) ==
    /\ pc = here
    /\ idx < Len(directories)
    /\ idx' = idx + 1
    /\ FreshIteration
    /\ \E chdirOk \in BOOLEAN :
        /\ cwd' = IF chdirOk THEN idx + 1 ELSE cwd
        /\ IF Proceeds(chdirOk)
           THEN /\ pc' = first
                /\ \E g \in RepoGits(branch_name) :
                    /\ gitHead' = g.head
                    /\ gitBranches' = g.branches
           ELSE pc' = here /\ UNCHANGED gitVars

\* the branch cleanup_branches deletes
CleanupBranch == "patch-iroh-main"

InitCleanup ==
    /\ cfgFile = "ok"
    /\ NoUpdateBuckets
    /\ directories \in UNION {[1..n -> DirPaths] : n \in 0..MaxDirs}
    /\ branch_name \in BranchNames
    /\ crates = <<>>
    /\ execute = FALSE
    /\ pc = "cl_loop"
    /\ idx = 0
    /\ successful = <<>>
    /\ unsuccessful = <<>>
    /\ cwd = 0
    /\ result = "none"
    /\ log = <<>>
    /\ nz = "no"
    /\ gitHead = "main"
    /\ gitBranches = {"main"}
    /\ prList = <<>>
    /\ updated = <<>>
    /\ runs = 0
    /\ IdleEditor
    /\ IdleDeny

CleanupEnter ==
    /\ EnterDir("cl_loop", "cl_co")
    /\ UNCHANGED <<cfgVars, successful, unsuccessful, updVars, result, edVars, runs, denyVars,
                   prList>>

\* git checkout main, with `?`: an io::Error ends cleanup_branches
CleanupCheckoutMain ==
    /\ pc = "cl_co"
    /\ Ran("git checkout main")
    /\ \E o \in CmdOutcomes :
        /\ NzAfter(o)
        /\ pc' = IF o = "spawn_err" THEN "failed" ELSE "cl_del"
        /\ gitHead' = IF o = "zero" THEN "main" ELSE gitHead
    /\ UNCHANGED <<cfgVars, batchVars, cwd, result, gitBranches, edVars, runs, denyVars, prList>>

\* git branch -D patch-iroh-main, `.status().ok()`: git refuses when the
\* branch is missing or checked out
CleanupDeleteLocal ==
    /\ pc = "cl_del"
    /\ Ran("git branch -D " \o CleanupBranch)
    /\ \E o \in CmdOutcomes :
        /\ o = "zero" => (CleanupBranch \in gitBranches /\ gitHead # CleanupBranch)
        /\ NzAfter(o)
        /\ gitBranches' = IF o = "zero" THEN gitBranches \ {CleanupBranch} ELSE gitBranches
    /\ pc' = "cl_push"
    /\ UNCHANGED <<cfgVars, batchVars, cwd, result, gitHead, edVars, runs, denyVars, prList>>

\* git push origin --delete patch-iroh-main, `.status().ok()`
CleanupDeleteRemote ==
    /\ pc = "cl_push"
    /\ Ran("git push origin --delete " \o CleanupBranch)
    /\ \E o \in CmdOutcomes : NzAfter(o)
    /\ pc' = "cl_loop"
    /\ UNCHANGED <<cfgVars, batchVars, cwd, result, gitVars, edVars, runs, denyVars, prList>>

CleanupDone ==
    /\ pc = "cl_loop"
    /\ idx = Len(directories)
    /\ pc' = "done"
    /\ UNCHANGED <<cfgVars, batchVars, cwd, result, log, nz, gitVars, edVars, runs, denyVars,
                   prList>>

NextCleanup ==
    \/ CleanupEnter
    \/ CleanupCheckoutMain
    \/ CleanupDeleteLocal
    \/ CleanupDeleteRemote
    \/ CleanupDone

SpecCleanup == InitCleanup /\ [][NextCleanup]_vars

\* update_and_check and reset name the directory before they change into
\* it: dir.file_name().expect("checked")
EnterNamedDir(here, first) ==
    /\ pc = here
    /\ idx < Len(directories)
    /\ IF HasFileName(directories[idx + 1])
       THEN EnterDir(here, first)
       ELSE /\ pc' = "panic"
            /\ idx' = idx + 1
            /\ FreshIteration
            /\ UNCHANGED <<cwd, gitVars>>

InitUpdate ==
    /\ cfgFile = "ok"
    /\ NoUpdateBuckets
    /\ directories \in UNION {[1..n -> DirPaths] : n \in 0..MaxDirs}
    /\ branch_name = "patch-iroh-main"
    /\ crates \in {cs \in CrateLists : DistinctNames(cs)}
    /\ execute = FALSE
    /\ pc = "up_loop"
    /\ idx = 0
    /\ successful = <<>>
    /\ unsuccessful = <<>>
    /\ cwd = 0
    /\ result = "none"
    /\ log = <<>>
    /\ nz = "no"
    /\ gitHead = "main"
    /\ gitBranches = {"main"}
    /\ prList = <<>>
    /\ updated = <<>>
    /\ runs = 0
    /\ IdleEditor
    /\ IdleDeny

UpdateEnter ==
    /\ EnterNamedDir("up_loop", "up_co")
    /\ UNCHANGED <<cfgVars, successful, unsuccessful, updVars, result, edVars, runs, denyVars,
                   prList>>

\* checkout_and_pull: git checkout main; an io::Error puts the directory in
\* main_failures
UpdateCheckoutMain ==
    /\ pc = "up_co"
    /\ Ran("git checkout main")
    /\ \E o \in CmdOutcomes :
        /\ NzAfter(o)
        /\ gitHead' = IF o = "zero" THEN "main" ELSE gitHead
        /\ IF o = "spawn_err"
           THEN pc' = "up_loop" /\ main_failures' = Append(main_failures, idx)
           ELSE pc' = "up_pull" /\ UNCHANGED main_failures
    /\ UNCHANGED <<cfgVars, idx, successful, unsuccessful, update_failures, check_failures,
                   cwd, result, gitBranches, edVars, runs, denyVars, prList>>

\* checkout_and_pull: git pull origin main
UpdatePull ==
    /\ pc = "up_pull"
    /\ Ran("git pull")
    /\ \E o \in CmdOutcomes :
        /\ NzAfter(o)
        /\ IF o = "spawn_err"
           THEN pc' = "up_loop" /\ main_failures' = Append(main_failures, idx)
           ELSE pc' = "up_list" /\ UNCHANGED main_failures
    /\ UNCHANGED <<cfgVars, idx, successful, unsuccessful, update_failures, check_failures,
                   cwd, result, gitVars, edVars, runs, denyVars, prList>>

\* list_relevant_crates: the configured crates the Cargo.toml of the directory
\* refers to; a read or parse error puts the directory in update_failures
ListRelevantCrates ==
    /\ pc = "up_list"
    /\ Ran("read Cargo.toml")
    /\ \E m \in RepoManifests, readOk \in BOOLEAN :
        \E referenced \in {parse_referenced_crates(m)} :
            /\ manifest' = m
            /\ prevManifest' = m
            /\ IF readOk /\ referenced.ok
               THEN /\ updated' = SelectSeq(crates, LAMBDA c : c.name \in referenced.val)
                    /\ pc' = "up_update"
                    /\ UNCHANGED update_failures
               ELSE /\ updated' = <<>>
                    /\ pc' = "up_loop"
                    /\ update_failures' = Append(update_failures, idx)
    /\ UNCHANGED <<cfgVars, idx, successful, unsuccessful, main_failures, check_failures,
                   cwd, result, nz, gitVars, edRes, edWhy, runs, denyVars, prList>>

\* cargo_update(&referenced_crates)
UpdateCargoUpdate ==
    /\ pc = "up_update"
    /\ Ran("cargo update")
    /\ \E o \in CmdOutcomes :
        /\ NzAfter(o)
        /\ IF o = "spawn_err"
           THEN pc' = "up_loop" /\ update_failures' = Append(update_failures, idx)
           ELSE pc' = "up_check" /\ UNCHANGED update_failures
    /\ UNCHANGED <<cfgVars, idx, successful, unsuccessful, main_failures, check_failures,
                   cwd, result, gitVars, edVars, runs, denyVars, prList>>

\* cargo_check: the one command whose exit status is inspected
CargoCheck ==
    /\ pc = "up_check"
    /\ Ran("cargo check")
    /\ \E o \in CmdOutcomes :
        /\ NzAfter(o)
        /\ IF o = "zero"
           THEN successful' = Append(successful, idx) /\ UNCHANGED check_failures
           ELSE check_failures' = Append(check_failures, idx) /\ UNCHANGED successful
    /\ pc' = "up_loop"
    /\ UNCHANGED <<cfgVars, idx, unsuccessful, main_failures, update_failures,
                   cwd, result, gitVars, edVars, runs, denyVars, prList>>

\* after the loop the four lists are reported, then Ok(())
UpdateReport ==
    /\ pc = "up_loop"
    /\ idx = Len(directories)
    /\ pc' = "done"
    /\ UNCHANGED <<cfgVars, batchVars, cwd, result, log, nz, gitVars, edVars, runs, denyVars,
                   prList>>

NextUpdate ==
    \/ UpdateEnter
    \/ UpdateCheckoutMain
    \/ UpdatePull
    \/ ListRelevantCrates
    \/ UpdateCargoUpdate
    \/ CargoCheck
    \/ UpdateReport

SpecUpdate == InitUpdate /\ [][NextUpdate]_vars

\* reset
ResetEnter ==
    /\ EnterNamedDir("rs_loop", "rs_reset")
    /\ UNCHANGED <<cfgVars, successful, unsuccessful, updVars, result, edVars, runs, denyVars,
                   prList>>

\* git reset --hard: an io::Error puts the directory in failures
GitResetHard ==
    /\ pc = "rs_reset"
    /\ Ran("git reset --hard")
    /\ \E o \in CmdOutcomes :
        /\ NzAfter(o)
        /\ IF o = "spawn_err"
           THEN unsuccessful' = Append(unsuccessful, idx) /\ UNCHANGED successful
           ELSE successful' = Append(successful, idx) /\ UNCHANGED unsuccessful
    /\ pc' = "rs_loop"
    /\ UNCHANGED <<cfgVars, idx, updVars, cwd, result, gitVars, edVars, runs, denyVars, prList>>

ResetReport ==
    /\ pc = "rs_loop"
    /\ idx = Len(directories)
    /\ pc' = "done"
    /\ UNCHANGED <<cfgVars, batchVars, cwd, result, log, nz, gitVars, edVars, runs, denyVars,
                   prList>>

NextReset ==
    \/ ResetEnter
    \/ GitResetHard
    \/ ResetReport

\* main: load_config, then the subcommand
\* a directory entry of the config file that is not an absolute path
RelDir == "work/repo"

IsAbsolute(d) == d \in DirPaths

\* load_config's validation loop
AllAbsoluteUnchecked(dirs) == TRUE
AllAbsolute(dirs) == \A i \in DOMAIN dirs : IsAbsolute(dirs[i])

\* load_config returns Ok
LoadConfigOk == cfgFile = "ok" /\ AllAbsolute(directories)

\* where each subcommand starts: patch, cleanup, update, reset
Commands == {"loop", "cl_loop", "up_loop", "rs_loop"}

InitMain ==
    /\ cfgFile \in {"ok", "unreadable", "unparseable"}
    /\ NoUpdateBuckets
    /\ directories \in UNION {[1..n -> DirPaths \cup {RelDir}] : n \in 0..MaxDirs}
    /\ branch_name = "patch-iroh-main"
    /\ crates \in {cs \in CrateLists :
                    DistinctNames(cs) /\ \A i \in DOMAIN cs : cs[i].repo_url = "u1"}
    /\ execute \in BOOLEAN
    /\ pc = "start"
    /\ idx = 0
    /\ successful = <<>>
    /\ unsuccessful = <<>>
    /\ cwd = 0
    /\ result = "none"
    /\ log = <<>>
    /\ nz = "no"
    /\ gitHead = "main"
    /\ gitBranches = {"main"}
    /\ prList = <<>>
    /\ updated = <<>>
    /\ runs = 0
    /\ IdleEditor
    /\ IdleDeny

\* `let config = load_config(&cli.config)?;` and the match on cli.command
MainStart ==
    /\ pc = "start"
    /\ IF LoadConfigOk
       THEN \E c \in Commands : pc' = c
       ELSE pc' = "failed"
    /\ UNCHANGED <<cfgVars, batchVars, cwd, result, log, nz, gitVars, edVars, runs, denyVars,
                   prList>>

NextMain ==
    \/ MainStart
    \/ Next
    \/ NextCleanup
    \/ NextUpdate
    \/ NextReset

SpecMain == InitMain /\ [][NextMain]_vars

\* ------------------------------------------------- vocabulary of the claims
\* read off the text, without the parser: the table a position lies in (the
\* nearest header before it), the keys a table's section holds, and how often
\* a key occurs in a table's section
TableAt(text, i) ==
    LET hs == {j \in 1..i : text[j].k = "hdr"}
    IN  IF hs = {} THEN "" ELSE text[CHOOSE j \in hs : \A h \in hs : h <= j].a

KeyPlaces(text, table, n) ==
    {i \in 1..Len(text) : text[i].k = "kv" /\ text[i].a = n /\ TableAt(text, i) = table}

SectionKeys(text, table) == {n \in Names : KeyPlaces(text, table, n) # {}}

ReferencedNames(text) ==
    SectionKeys(text, "dependencies") \cup SectionKeys(text, "dev-dependencies")

PatchedNames(text) == SectionKeys(text, "patch.crates-io")

AtMostOncePatched(text) ==
    \A n \in Names : Cardinality(KeyPlaces(text, "patch.crates-io", n)) <= 1

IsPrefix(s, t) == Len(s) <= Len(t) /\ SubSeq(t, 1, Len(s)) = s

\* what the last editor call appended, and its items (newlines left out)
Appended == SubSeq(manifest, Len(prevManifest) + 1, Len(manifest))
AppendedItems == SelectSeq(Appended, LAMBDA t : t.k # "nl")

PatchLines(cs) == [i \in 1..Len(cs) |-> PatchLine(cs[i])]

\* ---------------------------------------------------------------- claims
\* C1: a call that returns Ok returns exactly the candidates whose name is
\* among the keys of [dependencies]/[dev-dependencies] and not among the keys
\* of [patch.crates-io] of the manifest as it was when the call started, in
\* candidate order, and the key/value lines it appended are the lines of the
\* returned crates, in that order.
C1_AppliedIffReferencedAndUnpatched ==
    edRes = "ok" =>
        /\ updated = SelectSeq(crates, LAMBDA c :
                        /\ c.name \in ReferencedNames(prevManifest)
                        /\ c.name \notin PatchedNames(prevManifest))
        /\ SelectSeq(Appended, LAMBDA t : t.k = "kv") = PatchLines(updated)

\* the scenario of the spec: foo is declared, nothing is overridden, the
\* candidates are foo and bar, and only foo is applied
C1_Witness ==
    /\ edRes = "ok"
    /\ runs = 1
    /\ crates = <<Cr("foo", "u1"), Cr("bar", "u2")>>
    /\ updated = <<Cr("foo", "u1")>>
    /\ ~Contains(prevManifest, PatchHeader)
    /\ ReferencedNames(prevManifest) = {"foo"}

\* C2 (as claimed): a second run on the manifest the first run produced, with
\* the same candidates, applies nothing and leaves the text as it was.
C2_SecondRunChangesNothing ==
    (runs >= 2 /\ edRes = "ok") => (updated = <<>> /\ manifest = prevManifest)

\* C3 (as claimed): if no name occurs twice in the [patch.crates-io] section
\* before a run, none does after it.
C3_PatchedAtMostOnce ==
    (runs >= 1 /\ AtMostOncePatched(prevManifest)) => AtMostOncePatched(manifest)

\* C7: the text before a call is a prefix of the text after it, whatever the
\* call returns; after Ok the appended items are the [patch.crates-io] header,
\* present exactly when the text before did not contain it, followed by one
\* override line per returned crate.
C7_AppendOnly ==
    edRes # "none" =>
        /\ IsPrefix(prevManifest, manifest)
        /\ edRes = "ok" =>
            AppendedItems =
                (IF Contains(prevManifest, PatchHeader) THEN <<>> ELSE <<PatchHeader>>)
                    \o PatchLines(updated)

\* a call that appends the header and an override line to a non-empty text
C7_Witness ==
    /\ edRes = "ok"
    /\ Len(prevManifest) > 0
    /\ ~Contains(prevManifest, PatchHeader)
    /\ updated # <<>>
    /\ Len(manifest) = Len(prevManifest) + 3 + 2 * Len(updated)

\* the URL strings of a policy file's sources.allow-git list
ListedUrls(d) ==
    IF d.sources = "table" /\ d.allow = "array"
    THEN {r \in Range(d.repos) : r \in Urls}
    ELSE {}

UpdatedUrls == {updated[i].repo_url : i \in DOMAIN updated}

AllowGitIsUnion ==
    /\ deny.sources = "table"
    /\ deny.allow = "array"
    /\ Range(deny.repos) = ListedUrls(prevDeny) \cup UpdatedUrls
    /\ Len(deny.repos) = Cardinality(Range(deny.repos))

\* C9 (as claimed): a call on a policy file that exists and parses, whose read
\* and write succeed, leaves sources.allow-git holding exactly the URLs listed
\* before and the URLs of the updated crates, each once.
C9_AllowGitIsUnion ==
    (denyRes \in {"ok", "panic"} /\ prevDeny.exists /\ prevDeny.parses) =>
        (denyRes = "ok" /\ AllowGitIsUnion)

\* what does hold: the same, for a policy file whose `sources` is missing or a
\* table
C9_UnionWhenSourcesIsTable ==
    (denyRes = "ok" /\ prevDeny.exists) => AllowGitIsUnion

\* a URL both listed and newly applied, ending up listed once
C9_UnionWitness ==
    /\ denyRes = "ok"
    /\ prevDeny.exists
    /\ ListedUrls(prevDeny) \cap UpdatedUrls # {}
    /\ Len(prevDeny.repos) = 2
    /\ Len(deny.repos) = 2

Last(q) == q[Len(q)]

\* C4 (as claimed): patch_crates returns Ok, and when it has returned every
\* configured directory is in exactly one bucket, each bucket in configured
\* order.
C4_BatchIsolation ==
    /\ pc # "panic"
    /\ pc = "done" =>
        /\ Range(successful) \cup Range(unsuccessful) = 1..Len(directories)
        /\ Len(successful) + Len(unsuccessful) = Len(directories)
        /\ \A i, j \in DOMAIN successful : i < j => successful[i] < successful[j]
        /\ \A i, j \in DOMAIN unsuccessful : i < j => unsuccessful[i] < unsuccessful[j]

\* C5 (as claimed): after a command of a directory exited non-zero no further
\* stage runs for that directory, and patch_crate returns Err.
C5_StageGating ==
    /\ nz # "ran_on"
    /\ (pc = "ret" /\ nz = "last") => result = "err"

ZeroApplied == edRes = "ok" /\ updated = <<>>

CommitBlockStages == {"cargo update", "update deny.toml", "git add", "git commit"}

C8_ParseFailureWritesNothing ==
    (edRes # "none" /\ (edWhy = "read" \/ ~TomlParse(prevManifest).ok)) =>
        /\ edRes = "err"
        /\ manifest = prevManifest
        /\ pc = "ret"
        /\ result = "err"
        /\ Last(log) = "ensure patches"

\* the editor met a manifest that does not parse
C8_Witness ==
    /\ edRes = "err"
    /\ edWhy = "parse"
    /\ prevManifest # <<>>
    /\ ~TomlParse(prevManifest).ok
    /\ pc = "ret"

\* C10: the crates handed to create_pull_request are the configured crates
\* whose name is in the [patch.crates-io] section of Cargo.toml as the earlier
\* stages left it, in configuration order; the pull request is only opened with
\* execute, after the push.
C10_PrListsCurrentOverrides ==
    (pc = "pr" \/ "gh pr create" \in Range(log)) =>
        /\ execute
        /\ "git push" \in Range(log)
        /\ prList = SelectSeq(crates, LAMBDA c : c.name \in PatchedNames(manifest))

\* a pull request that lists a crate applied in this run and one overridden
\* before it
C10_Witness ==
    /\ "gh pr create" \in Range(log)
    /\ result = "ok"
    /\ Len(updated) = 1
    /\ Len(prList) = 2
    /\ prList[2].name \in PatchedNames(prevManifest)

\* the dependency update of the current directory was the last stage, and it
\* failed: cargo could not be started, or it exited non-zero
CargoUpdateFailed ==
    /\ log # <<>>
    /\ Last(log) = "cargo update"
    /\ (pc = "ret" \/ nz = "last")

\* C13 (as claimed): when the dependency update fails after the editor applied
\* an override, the appended lines are still in Cargo.toml and patch_crate
\* returns Err.
C13_NoRollbackReportedFailed ==
    (edRes = "ok" /\ updated # <<>> /\ CargoUpdateFailed) =>
        /\ manifest # prevManifest
        /\ IsPrefix(prevManifest, manifest)
        /\ pc = "ret"
        /\ result = "err"

\* what does hold: after the editor applied an override the file keeps the
\* appended text through every later stage of the call
C13_EditStaysInPlace ==
    (edRes = "ok" /\ updated # <<>>) =>
        /\ manifest # prevManifest
        /\ IsPrefix(prevManifest, manifest)
        /\ \A i \in DOMAIN updated :
            \E j \in (Len(prevManifest) + 1)..Len(manifest) : manifest[j] = PatchLine(updated[i])

\* patch_crate has returned and its last stage was cargo_update or
\* update_deny_toml: that stage returned Err
UpdateStageErr ==
    /\ pc = "ret"
    /\ log # <<>>
    /\ Last(log) \in {"cargo update", "update deny.toml"}

\* C14 (as claimed): a call in which an override was applied and cargo_update
\* or update_deny_toml failed has run commit_changes.
C14_CommitsAfterFailure ==
    (updated # <<>> /\ UpdateStageErr) => "git commit" \in Range(log)

\* C14 (amended): commit_changes runs only after cargo_update and
\* update_deny_toml both returned Ok; when either returns Err patch_crate
\* returns Err there, and neither git add nor git commit has run.
C14_CommitOnlyAfterBothOk ==
    /\ (Range(log) \cap {"git add", "git commit"} # {}) =>
        /\ updated # <<>>
        /\ "cargo update" \in Range(log)
        /\ denyRes = "ok"
    /\ denyRes \notin {"none", "ok"} => Range(log) \cap {"git add", "git commit"} = {}
    /\ UpdateStageErr =>
        /\ result = "err"
        /\ Range(log) \cap {"git add", "git commit"} = {}

\* an override was applied, deny.toml did not parse, and the call has returned
C14_Witness ==
    /\ updated # <<>>
    /\ denyRes = "err_parse"
    /\ UpdateStageErr
    /\ result = "err"

\* C15: with no deny.toml, update_deny_toml returns Ok and creates no file; the
\* step changes nothing but the stage log, and git add is the next stage.
C15_AbsentPolicyIsNoOp ==
    /\ []((denyRes # "none" /\ ~prevDeny.exists) => (denyRes = "ok" /\ deny = prevDeny))
    /\ [][(pc = "deny" /\ ~prevDeny'.exists) =>
            /\ pc' = "add"
            /\ ~deny'.exists
            /\ UNCHANGED <<cfgVars, batchVars, cwd, result, nz, gitVars, edVars, runs, prList>>]_vars

\* the updater met no deny.toml and the commit stage has begun
C15_Witness ==
    /\ denyRes = "ok"
    /\ ~prevDeny.exists
    /\ ~deny.exists
    /\ "git add" \in Range(log)

\* C18 (as claimed): at the manifest-patch stage and at every stage up to the
\* commit, the branch checked out is branch_name.
C18_OnTargetBranch ==
    pc \in {"ensure", "cargo_update", "deny", "add", "commit"} => gitHead = branch_name

\* the run before this one applied an override and returned Err from
\* cargo_update or update_deny_toml, before the commit
AbortedBeforeCommit ==
    /\ pc = "ensure"
    /\ runs >= 1
    /\ edRes = "ok"
    /\ updated # <<>>
    /\ result = "err"
    /\ Last(log) \in {"cargo update", "update deny.toml"}

\* C19 (as claimed): the run that follows such a run applies nothing and ends
\* at the editor: no dependency update, policy update or commit.
C19_LaterRunsApplyNothing ==
    [][AbortedBeforeCommit => (updated' = <<>> /\ pc' = "ret")]_vars

\* C12 (as claimed): cleanup_branches does not return Err, and when it has
\* returned it has gone through every configured directory.
C12_CleanupNeverFails ==
    /\ pc # "failed"
    /\ pc = "done" => idx = Len(directories)

\* what does hold: the outcome of the two deletions never ends the loop
C12_DeletionsAreIgnored ==
    [][(pc \in {"cl_del", "cl_push"}) => (pc' \in {"cl_push", "cl_loop"})]_vars

\* C17 (as claimed): in a directory cleanup has gone through, the local and
\* the remote delete it issued name the configured branch_name.
C17_CleanupDeletesConfiguredBranch ==
    (pc \in {"cl_loop", "done"} /\ Len(log) = 3) =>
        /\ log[2] = "git branch -D " \o branch_name
        /\ log[3] = "git push origin --delete " \o branch_name

\* how often directory i is listed in bucket b
Occurrences(b, i) == Cardinality({j \in DOMAIN b : b[j] = i})

InBuckets(i) ==
    Occurrences(successful, i) + Occurrences(main_failures, i)
        + Occurrences(update_failures, i) + Occurrences(check_failures, i)

\* C11 (as claimed): update_and_check returns with every configured directory
\* in exactly one of its four buckets, and a directory is in the success bucket
\* only if none of its commands failed.
C11_FourBuckets ==
    /\ pc # "panic"
    /\ pc = "done" => \A i \in 1..Len(directories) : InBuckets(i) = 1
    /\ (pc = "up_loop" /\ idx >= 1 /\ Occurrences(successful, idx) = 1) => nz = "no"

\* what does hold: no directory is listed twice, and an error returned by a
\* stage puts the directory in the bucket of that stage
C11_ErrGoesToItsBucket ==
    /\ \A i \in 1..Len(directories) : InBuckets(i) <= 1
    /\ (pc = "up_loop" /\ log # <<>>) =>
        /\ Last(log) \in {"git checkout main", "git pull"} => Occurrences(main_failures, idx) = 1
        /\ Last(log) \in {"read Cargo.toml", "cargo update"} =>
            Occurrences(update_failures, idx) = 1
        /\ Last(log) = "cargo check" =>
            Occurrences(successful, idx) + Occurrences(check_failures, idx) = 1

ConfigError == cfgFile # "ok" \/ \E i \in DOMAIN directories : ~IsAbsolute(directories[i])

\* C16: with a config file that cannot be read or parsed, or that lists a
\* directory that is not absolute, main returns the error of load_config, and
\* no directory has been entered, no command run and no file read or edited.
C16_ConfigErrorsBeforeAnyWork ==
    /\ [](ConfigError =>
            /\ pc \in {"start", "failed"}
            /\ cwd = 0
            /\ idx = 0
            /\ log = <<>>
            /\ edRes = "none"
            /\ denyRes = "none"
            /\ manifest = <<>>
            /\ ~deny.exists)
    /\ [][(ConfigError /\ pc = "start") => (pc' = "failed")]_vars

\* main has failed on a config file whose second directory is the first that
\* is not absolute
C16_Witness ==
    /\ pc = "failed"
    /\ cfgFile = "ok"
    /\ Len(directories) = 2
    /\ IsAbsolute(directories[1])
    /\ ~IsAbsolute(directories[2])
    /\ cwd = 0

\* the places where a command or a file operation of the current directory is
\* about to run
StagePcs ==
    {"rev_parse", "co_main", "pull", "co_new", "ensure", "cargo_update", "deny", "add",
     "commit", "push", "reread", "pr",
     "cl_co", "cl_del", "cl_push",
     "up_co", "up_pull", "up_list", "up_update", "up_check",
     "rs_reset"}

\* C20: in each subcommand a command or file operation of directory idx only
\* runs with the process in that directory; after a failed set_current_dir
\* nothing is run for the directory.
C20_WorkingDirectory ==
    /\ pc \in StagePcs => (idx >= 1 /\ cwd = idx)
    /\ log # <<>> => cwd = idx
    /\ (edRes # "none" \/ denyRes # "none") => cwd = idx

\* the second directory could not be entered after the first was processed:
\* the process is still in the first, and nothing has run for the second
C20_Witness ==
    /\ idx = 2
    /\ cwd = 1
    /\ pc \in {"ret", "cl_loop", "up_loop", "rs_loop"}
    /\ log = <<>>
====
